---------------------------- MODULE Spec2Model ----------------------------
(***************************************************************************)
(* A model of plane_agent.py: the construction of the supervisor and its   *)
(* pool of domain agents (create_agent), the delegation tools registered   *)
(* on the supervisor, and the /ag-ui endpoint of create_agent_server.      *)
(***************************************************************************)
EXTENDS Naturals, Integers, Sequences, FiniteSets, TLC

(***************************************************************************)
(* Bounds of the model.                                                    *)
(***************************************************************************)
\* Longest list of servers a multi-server configuration document holds.
MaxServers == 2

\* Python's None.
None == "None"

(***************************************************************************)
(* Generic helpers.                                                        *)
(***************************************************************************)
Range(s) == {s[i] : i \in 1..Len(s)}

RECURSIVE Join(_, _)
\* sep.join(words)
Join(words, sep) ==
    IF Len(words) = 0 THEN ""
    ELSE IF Len(words) = 1 THEN words[1]
    ELSE words[1] \o sep \o Join(Tail(words), sep)

\* All sequences over S of length 0..n.
SeqsUpTo(S, n) == UNION {[1..k -> S] : k \in 0..n}

(***************************************************************************)
(* AGENTS_CONFIG (lines 106-179).  A tag is written as the words that its  *)
(* underscores separate, so that tag.replace('_', '-') is computed and not *)
(* assumed.                                                                *)
(***************************************************************************)
AGENT_TAG_WORDS ==
    << <<"projects">>, <<"work", "items">>, <<"cycles">>, <<"modules">>,
       <<"pages">>, <<"users">>, <<"states">>, <<"labels">>,
       <<"work", "item", "types">>, <<"work", "item", "comments">>,
       <<"work", "item", "links">>, <<"work", "item", "properties">>,
       <<"work", "item", "activities">>, <<"work", "logs">>,
       <<"initiatives">>, <<"intake">>, <<"workspaces">>,
       <<"work", "item", "relations">> >>

\* The keys of AGENTS_CONFIG in insertion order (the order of .items()).
AGENT_TAGS == [i \in 1..Len(AGENT_TAG_WORDS) |-> Join(AGENT_TAG_WORDS[i], "_")]

AGENTS_CONFIG ==
    [t \in Range(AGENT_TAGS) |->
       CASE t = "projects" ->
              [prompt |-> "You are the Plane Projects Agent. Manage projects, members, features, and summaries.",
               name |-> "Plane_Projects_Agent"]
         [] t = "work_items" ->
              [prompt |-> "You are the Plane Work Items Agent. Create, update, list, and search work items.",
               name |-> "Plane_Work_Items_Agent"]
         [] t = "cycles" ->
              [prompt |-> "You are the Plane Cycles Agent. Manage cycles and their work items.",
               name |-> "Plane_Cycles_Agent"]
         [] t = "modules" ->
              [prompt |-> "You are the Plane Modules Agent. Manage modules and their work items.",
               name |-> "Plane_Modules_Agent"]
         [] t = "pages" ->
              [prompt |-> "You are the Plane Pages Agent. Manage project and workspace pages.",
               name |-> "Plane_Pages_Agent"]
         [] t = "users" ->
              [prompt |-> "You are the Plane Users Agent. Retrieve user information.",
               name |-> "Plane_Users_Agent"]
         [] t = "states" ->
              [prompt |-> "You are the Plane States Agent. Manage workflow states.",
               name |-> "Plane_States_Agent"]
         [] t = "labels" ->
              [prompt |-> "You are the Plane Labels Agent. Manage labels.",
               name |-> "Plane_Labels_Agent"]
         [] t = "work_item_types" ->
              [prompt |-> "You are the Plane Work Item Types Agent. Manage different types of work items.",
               name |-> "Plane_Work_Item_Types_Agent"]
         [] t = "work_item_comments" ->
              [prompt |-> "You are the Plane Work Item Comments Agent. Manage comments on work items.",
               name |-> "Plane_Work_Item_Comments_Agent"]
         [] t = "work_item_links" ->
              [prompt |-> "You are the Plane Work Item Links Agent. Manage links between work items.",
               name |-> "Plane_Work_Item_Links_Agent"]
         [] t = "work_item_properties" ->
              [prompt |-> "You are the Plane Work Item Properties Agent. Manage custom properties.",
               name |-> "Plane_Work_Item_Properties_Agent"]
         [] t = "work_item_activities" ->
              [prompt |-> "You are the Plane Work Item Activities Agent. Retrieve activity logs.",
               name |-> "Plane_Work_Item_Activities_Agent"]
         [] t = "work_logs" ->
              [prompt |-> "You are the Plane Work Logs Agent. Manage work logs and time tracking.",
               name |-> "Plane_Work_Logs_Agent"]
         [] t = "initiatives" ->
              [prompt |-> "You are the Plane Initiatives Agent. Manage initiatives.",
               name |-> "Plane_Initiatives_Agent"]
         [] t = "intake" ->
              [prompt |-> "You are the Plane Intake Agent. Manage intake work items.",
               name |-> "Plane_Intake_Agent"]
         [] t = "workspaces" ->
              [prompt |-> "You are the Plane Workspaces Agent. Manage workspace details and members.",
               name |-> "Plane_Workspaces_Agent"]
         [] t = "work_item_relations" ->
              [prompt |-> "You are the Plane Work Item Relations Agent. Manage relations (blocking, etc.) between items.",
               name |-> "Plane_Work_Item_Relations_Agent"]]

AGENT_NAME == "Plane Agent"

\* The words of a configured tag.
TagWords(tag) == CHOOSE ws \in Range(AGENT_TAG_WORDS) : Join(ws, "_") = tag

\* f"plane-{tag.replace('_', '-')}" (line 288).
skill_dir_name(tag) == "plane-" \o Join(TagWords(tag), "-")

\* os.path.join(a, b)
path_join(a, b) == a \o "/" \o b

\* get_skills_path(): the package's own skills directory.
get_skills_path == "/pkg/plane_agent/skills"

(***************************************************************************)
(* Capability providers (toolsets) and their tools.                        *)
(***************************************************************************)
\* Tool definitions the providers of the model offer: single-tagged (one of
\* them with the last tag of AGENTS_CONFIG), multi-tagged, tagged in another
\* letter case, and untagged.
PlaneTools ==
    { [name |-> "list_projects", tags |-> {"projects"}],
      [name |-> "create_work_item", tags |-> {"work_items"}],
      [name |-> "add_work_items_to_cycle", tags |-> {"cycles", "work_items"}],
      [name |-> "create_work_item_relation", tags |-> {"work_item_relations"}],
      [name |-> "get_me", tags |-> {"Users"}] }

AuxTools ==
    { [name |-> "search", tags |-> {}],
      [name |-> "list_labels", tags |-> {"labels"}] }

\* What a provider does when asked for ts.filtered(...):
\*   "filterable"   it has the method and returns a filtered view,
\*   "no_filtered"  it has no attribute "filtered", so that the call raises
\*                  AttributeError.
ToolsetKinds == {"filterable", "no_filtered"}

\* The servers a multi-server configuration document may name.
ConfigServers ==
    [toolset : {"MCPServer"}, id : {"plane"}, kind : ToolsetKinds,
     tools : {PlaneTools}, has_http_client : {TRUE}, http_client : {None}]
    \cup
    [toolset : {"MCPServer"}, id : {"aux"}, kind : ToolsetKinds,
     tools : {AuxTools}, has_http_client : {FALSE}, http_client : {None}]

\* The URLs mcp_url is drawn from.
McpUrls == {"http://plane-mcp:8000/sse", "http://plane-mcp:8000/SSE/",
            "http://plane-mcp:8000/mcp"}

\* "sse" in mcp_url.lower() (line 203), over McpUrls.
contains_sse(url) == url \in {"http://plane-mcp:8000/sse", "http://plane-mcp:8000/SSE/"}

\* httpx.AsyncClient(verify=ssl_verify, timeout=DEFAULT_TIMEOUT)
AsyncClient == "httpx.AsyncClient"

\* MCPServerSSE(mcp_url, http_client=...) / MCPServerStreamableHTTP(...)
\* (lines 203-216): both are toolsets of pydantic_ai and can be filtered.
MCPServer(url) ==
    [toolset |-> "MCPServer",
     id |-> IF contains_sse(url) THEN "MCPServerSSE" ELSE "MCPServerStreamableHTTP",
     kind |-> "filterable", tools |-> PlaneTools,
     has_http_client |-> TRUE, http_client |-> AsyncClient]


(***************************************************************************)
(* The capability filter.                                                  *)
(***************************************************************************)
\* Case normalisation of a tag, over the tags of the model.
normalize_tag(s) == IF s = "Users" THEN "users" ELSE s

\* plane_agent.utils.tool_in_tag: the tag is a member of the tool's tag set.
tool_in_tag(tool_def, t) ==
    normalize_tag(t) \in {normalize_tag(x) : x \in tool_def.tags}

\* The last key of AGENTS_CONFIG: the value the loop variable `tag` is left
\* with when the loop of line 258 has run.
LastTag == AGENT_TAGS[Len(AGENT_TAGS)]

\* A filter whose tag is looked up when the filter runs (a closure over the
\* loop variable) instead of when it is defined.
filter_func_late_bound(tool_def, t) == tool_in_tag(tool_def, LastTag)

\* def filter_func(ctx, tool_def, t=tag): return tool_in_tag(tool_def, t)
\* (lines 264-265).  t is bound, as a default argument, when the function
\* is defined.
filter_func(tool_def, t) == tool_in_tag(tool_def, t)

\* hasattr(ts, "filtered") (line 267).
hasattr_filtered(ts) == ts.kind # "no_filtered"

\* ts.filtered(filter_func): the filtered view, which keeps the function
\* and with it the tag bound to its parameter t; or the exception raised.
ts_filtered(ts, t) ==
    CASE ts.kind = "filterable" ->
           [raised |-> FALSE,
            value |-> [toolset |-> "FilteredToolset", wrapped |-> ts, t |-> t]]
      [] ts.kind = "no_filtered" ->
           [raised |-> TRUE, value |-> "AttributeError"]

\* SkillsToolset(directories=...)
SkillsToolset(directories) ==
    [toolset |-> "SkillsToolset", directories |-> directories]

\* The tools of capability providers an agent sees through one of its
\* toolsets: a filtered view shows the tools its filter accepts, a provider
\* attached as it is shows all of its tools, a skills toolset shows none.
VisibleTools(ts) ==
    CASE ts.toolset = "FilteredToolset" ->
           {td \in ts.wrapped.tools : filter_func(td, ts.t)}
      [] ts.toolset = "SkillsToolset" -> {}
      [] OTHER -> ts.tools

\* Toolset ts of an agent is provider p, or a filtered view of it.
FromProvider(ts, p) ==
    CASE ts.toolset = "FilteredToolset" -> ts.wrapped = p
      [] ts.toolset = "SkillsToolset" -> FALSE
      [] OTHER -> ts = p

(***************************************************************************)
(* create_agent (lines 182-503).                                           *)
(***************************************************************************)
\* A record of the log: the line of the logger call, its text, its argument.
LogRecord(line, msg, arg) == [line |-> line, msg |-> msg, arg |-> arg]

\* load_mcp_servers(mcp_config): the servers of the document, or an error
\* for a document that cannot be loaded.
load_mcp_servers(doc) ==
    IF doc.malformed
    THEN [raised |-> TRUE, value |-> "ValueError"]
    ELSE [raised |-> FALSE, value |-> doc.servers]

\* Lines 221-225: every server that has an http_client gets a new one.
set_http_clients(servers) ==
    [i \in 1..Len(servers) |->
       IF servers[i].has_http_client
       THEN [servers[i] EXCEPT !.http_client = AsyncClient]
       ELSE servers[i]]

\* Lines 201-227: agent_toolsets and the log line of the branch taken.
setup_toolsets(url, config, doc) ==
    IF url # None
    THEN [raised |-> FALSE,
          agent_toolsets |-> << MCPServer(url) >>,
          log |-> << LogRecord(218, "Connected to MCP Server", url) >>]
    ELSE IF config # None
    THEN LET loaded == load_mcp_servers(doc) IN
         IF loaded.raised
         THEN [raised |-> TRUE, agent_toolsets |-> << >>, log |-> << >>]
         ELSE [raised |-> FALSE,
               agent_toolsets |-> set_http_clients(loaded.value),
               log |-> << LogRecord(227, "Connected to MCP Config JSON", config) >>]
    ELSE [raised |-> FALSE, agent_toolsets |-> << >>, log |-> << >>]

RECURSIVE filter_toolsets(_, _, _)
\* Lines 262-286, for the toolsets tss still to visit: the tag_toolsets
\* built, the toolsets whose failure to filter was swallowed by the except
\* clause of line 283, and whether an exception left the loop.
filter_toolsets(tss, tag, acc) ==
    IF Len(tss) = 0 THEN acc
    ELSE LET ts == Head(tss)
             r == ts_filtered(ts, tag)
         IN IF hasattr_filtered(ts)
            THEN IF r.raised
                 THEN [acc EXCEPT !.raised = TRUE]
                 ELSE filter_toolsets(Tail(tss), tag,
                        [acc EXCEPT !.tag_toolsets = Append(@, r.value)])
            ELSE IF r.raised
                 THEN \* except Exception: pass
                      filter_toolsets(Tail(tss), tag,
                        [acc EXCEPT !.swallowed = @ \cup {<<tag, ts.id>>}])
                 ELSE filter_toolsets(Tail(tss), tag,
                        [acc EXCEPT !.tag_toolsets = Append(@, r.value)])

\* A resolution that looks in the default root before the custom one.
child_skills_directories_default_first(tag, custom, exists) ==
    LET custom_path == path_join(custom, skill_dir_name(tag))
        default_path == path_join(get_skills_path, skill_dir_name(tag))
    IN (IF default_path \in exists THEN <<default_path>> ELSE << >>)
       \o (IF custom # None /\ custom_path \in exists THEN <<custom_path>> ELSE << >>)

\* Lines 288-300: the custom directory first, then the default one, each
\* only if it exists.
child_skills_directories(tag, custom, exists) ==
    LET custom_path == path_join(custom, skill_dir_name(tag))
        default_path == path_join(get_skills_path, skill_dir_name(tag))
    IN (IF custom # None /\ custom_path \in exists THEN <<custom_path>> ELSE << >>)
       \o (IF default_path \in exists THEN <<default_path>> ELSE << >>)

\* Agent(model=..., system_prompt=..., name=..., toolsets=...)
Agent(name, system_prompt, toolsets) ==
    [name |-> name, system_prompt |-> system_prompt, toolsets |-> toolsets]

\* A pool that gets an agent only for a domain that has a toolset.
store_child_if_equipped(children, tag, agent) ==
    IF Len(agent.toolsets) = 0 THEN children
    ELSE [t \in DOMAIN children \cup {tag} |->
            IF t = tag THEN agent ELSE children[t]]

\* child_agents[tag] = agent (line 320).
store_child(children, tag, agent) ==
    [t \in DOMAIN children \cup {tag} |->
       IF t = tag THEN agent ELSE children[t]]

RECURSIVE build_children(_, _, _, _, _)
\* The loop of lines 258-320 from the i-th key of AGENTS_CONFIG on.
build_children(i, agent_toolsets, custom, exists, acc) ==
    IF i > Len(AGENT_TAGS) \/ acc.raised THEN acc
    ELSE LET tag == AGENT_TAGS[i]
             config == AGENTS_CONFIG[tag]
             f == filter_toolsets(agent_toolsets, tag,
                    [raised |-> FALSE, tag_toolsets |-> << >>, swallowed |-> {}])
             dirs == child_skills_directories(tag, custom, exists)
             tag_toolsets == IF Len(dirs) > 0
                             THEN Append(f.tag_toolsets, SkillsToolset(dirs))
                             ELSE f.tag_toolsets
             agent == Agent(config.name, config.prompt, tag_toolsets)
         IN IF f.raised
            THEN [acc EXCEPT !.raised = TRUE]
            ELSE build_children(i + 1, agent_toolsets, custom, exists,
                   [raised |-> FALSE,
                    child_agents |-> store_child(acc.child_agents, tag, agent),
                    swallowed |-> acc.swallowed \cup f.swallowed,
                    log |-> IF Len(dirs) > 0
                            THEN Append(acc.log,
                                   LogRecord(305, "Loaded specialized skills for", tag))
                            ELSE acc.log])


\* The delegation tools registered on the supervisor (lines 343-501), in
\* the order of registration: the name of the function, the label of its
\* log line, and the key with which it indexes child_agents.
DELEGATION_TOOLS ==
    << [name |-> "assign_task_to_projects_agent", label |-> "Projects", key |-> "projects"],
       [name |-> "assign_task_to_work_items_agent", label |-> "Work Items", key |-> "work_items"],
       [name |-> "assign_task_to_cycles_agent", label |-> "Cycles", key |-> "cycles"],
       [name |-> "assign_task_to_modules_agent", label |-> "Modules", key |-> "modules"],
       [name |-> "assign_task_to_pages_agent", label |-> "Pages", key |-> "pages"],
       [name |-> "assign_task_to_users_agent", label |-> "Users", key |-> "users"],
       [name |-> "assign_task_to_states_agent", label |-> "States", key |-> "states"],
       [name |-> "assign_task_to_labels_agent", label |-> "Labels", key |-> "labels"],
       [name |-> "assign_task_to_work_item_types_agent", label |-> "Work Item Types",
        key |-> "work_item_types"],
       [name |-> "assign_task_to_work_item_comments_agent", label |-> "Work Item Comments",
        key |-> "work_item_comments"],
       [name |-> "assign_task_to_work_item_links_agent", label |-> "Work Item Links",
        key |-> "work_item_links"],
       [name |-> "assign_task_to_work_item_properties_agent", label |-> "Work Item Properties",
        key |-> "work_item_properties"],
       [name |-> "assign_task_to_work_item_activities_agent", label |-> "Work Item Activities",
        key |-> "work_item_activities"],
       [name |-> "assign_task_to_work_logs_agent", label |-> "Work Logs", key |-> "work_logs"],
       [name |-> "assign_task_to_initiatives_agent", label |-> "Initiatives", key |-> "initiatives"],
       [name |-> "assign_task_to_intake_agent", label |-> "Intake", key |-> "intake"],
       [name |-> "assign_task_to_workspaces_agent", label |-> "Workspaces", key |-> "workspaces"],
       [name |-> "assign_task_to_work_item_relations_agent", label |-> "Work Item Relations",
        key |-> "work_item_relations"] >>

\* A supervisor that is also given a capability provider.
Supervisor_given_provider(custom) ==
    [name |-> AGENT_NAME,
     toolsets |-> << SkillsToolset(<<get_skills_path>>
                                   \o (IF custom # None THEN <<custom>> ELSE << >>)),
                     MCPServer("http://plane-mcp:8000/mcp") >>,
     tools |-> [i \in 1..Len(DELEGATION_TOOLS) |-> DELEGATION_TOOLS[i].name]]

\* Lines 322-336 and the @supervisor.tool decorators: the supervisor, with
\* the skills toolset as its only toolset and the delegation tools.
Supervisor(custom) ==
    [name |-> AGENT_NAME,
     toolsets |-> << SkillsToolset(<<get_skills_path>>
                                   \o (IF custom # None THEN <<custom>> ELSE << >>)) >>,
     tools |-> [i \in 1..Len(DELEGATION_TOOLS) |-> DELEGATION_TOOLS[i].name]]

\* create_agent: what it returns, or that it raised, with what it logged.
create_agent(url, config, doc, custom, exists) ==
    LET setup == setup_toolsets(url, config, doc)
        start_log == << LogRecord(199, "Initializing Multi-Agent System for Plane...", None) >>
        built == build_children(1, setup.agent_toolsets, custom, exists,
                   [raised |-> FALSE, child_agents |-> << >>, swallowed |-> {},
                    log |-> start_log \o setup.log])
        nothing == [raised |-> TRUE, agent_toolsets |-> << >>, child_agents |-> << >>,
                    supervisor |-> None, swallowed |-> {}, log |-> start_log]
    IN IF setup.raised THEN nothing
       ELSE IF built.raised
       THEN [nothing EXCEPT !.agent_toolsets = setup.agent_toolsets]
       ELSE [raised |-> FALSE,
             agent_toolsets |-> setup.agent_toolsets,
             child_agents |-> built.child_agents,
             supervisor |-> Supervisor(custom),
             swallowed |-> built.swallowed,
             log |-> Append(built.log,
                      LogRecord(327, "Loaded supervisor skills from", custom))]

(***************************************************************************)
(* The skills of the agent-to-agent mount (lines 539-576).                 *)
(***************************************************************************)
\* The names a skill directory may have under a skills root.
SkillDirNames == <<"plane-projects", "plane-work-items">>

\* Skill(id=..., name=..., description=..., tags=..., ...)
Skill(id, name, description, tags) ==
    [id |-> id, name |-> name, description |-> description, tags |-> tags,
     input_modes |-> <<"text">>, output_modes |-> <<"text">>]

RECURSIVE skills_from(_, _, _)
\* The descriptors of the skill directories root has, from the i-th name on.
skills_from(i, root, exists) ==
    IF i > Len(SkillDirNames) THEN << >>
    ELSE (IF path_join(root, SkillDirNames[i]) \in exists
          THEN << Skill(SkillDirNames[i], SkillDirNames[i],
                        "skill of " \o root, <<"skill">>) >>
          ELSE << >>)
         \o skills_from(i + 1, root, exists)

\* plane_agent.utils.load_skills_from_directory: one descriptor for each
\* skill directory of the root, none for a root without any.
load_skills_from_directory(root, exists) == skills_from(1, root, exists)

\* Lines 559-568: the generic skill.
FallbackSkill ==
    Skill("plane_agent", "Plane Agent", "General access to Plane tools", <<"plane">>)

\* A server that advertises the skills as found.
skills_or_fallback_never(skills) == skills

\* Lines 557-568: 'if not skills: skills = [Skill(...)]'.
skills_or_fallback(skills) ==
    IF skills = << >> THEN << FallbackSkill >> ELSE skills

\* Lines 541-551: the default skills, extended by the custom ones.
found_skills(custom, exists) ==
    load_skills_from_directory(get_skills_path, exists)
    \o (IF custom # None /\ custom \in exists
        THEN load_skills_from_directory(custom, exists)
        ELSE << >>)

\* Lines 541-576: the skills agent.to_a2a is given, and what is logged.
server_skills(custom, exists) ==
    LET defaults == load_skills_from_directory(get_skills_path, exists)
        has_custom == custom # None /\ custom \in exists
        customs == load_skills_from_directory(custom, exists)
    IN [skills |-> skills_or_fallback(found_skills(custom, exists)),
        log |-> << LogRecord(543, "Loaded default skills", Len(defaults)) >>
                \o (IF has_custom
                    THEN << LogRecord(553, "Loaded custom skills", Len(customs)) >>
                    ELSE << >>)]

(***************************************************************************)
(* State.                                                                  *)
(***************************************************************************)
VARIABLES
    \* The arguments of create_agent_server and the files they name.
    mcp_url, mcp_config, mcp_config_doc, custom_skills_directory, fs,
    \* create_agent_server: "start", "serving" (uvicorn.run was reached) or
    \* "raised" (an exception left it).
    server,
    \* What create_agent built.
    agent_toolsets, child_agents, supervisor, log,
    \* The <<tag, provider>> pairs for which line 283 swallowed an exception.
    swallowed,
    \* The skills passed to agent.to_a2a (line 574).
    a2a_skills,
    \* One supervisor run: the usage objects by reference ("ctx" is the
    \* ctx.usage of the run's RunContext), ctx.deps, and the calls of
    \* delegation tools the run has in flight or has just finished.
    usage, ctx_deps, calls,
    \* Bookkeeping of the run: the usage of ctx.usage when the supervisor
    \* issued the calls of its current step.
    usage0,
    \* The request to POST /ag-ui being served: what the client sent, what
    \* the endpoint did with it, and the events of its stream.
    request,
    \* A second request to POST /ag-ui, served while the first is.
    concurrent_request

build_vars == <<mcp_url, mcp_config, mcp_config_doc, custom_skills_directory, fs,
                server, agent_toolsets, child_agents, supervisor, log, swallowed,
                a2a_skills>>

run_vars == <<usage, ctx_deps, calls, usage0>>

request_vars == <<request, concurrent_request>>

vars == <<build_vars, run_vars, request_vars>>

\* The tool calls a supervisor step may have in flight at once.
Invocations == {"call_1", "call_2"}

\* The usage objects: the one of the supervisor's RunContext and, for each
\* call, the one a child run makes for itself when it is given none.
UsageRefs == {"ctx"} \cup Invocations

\* No call.
NoCall ==
    [pc |-> "idle", tool |-> None, task |-> None, logged |-> None,
     run_agent |-> None, run_task |-> None, run_usage |-> None, run_deps |-> None,
     incurred |-> 0, run_state |-> None, run_outcome |-> None, result |-> None]

\* No AGUIAdapter was constructed.
NoAdapter == [agent |-> None, run_input |-> None, accept |-> None]

\* No request.
NoRequest ==
    [pc |-> "none", body |-> None, accept_header |-> None, steps |-> << >>,
     response |-> None, adapter |-> NoAdapter, produced |-> << >>, sent |-> << >>,
     closed |-> 0, outcome |-> None]

\* No supervisor run.
NoRun ==
    /\ usage = [r \in UsageRefs |-> 0]
    /\ ctx_deps = None
    /\ calls = [s \in Invocations |-> NoCall]
    /\ usage0 = 0

\* The paths that may exist on disk.
FsPaths ==
    {"/custom",
     "/custom/plane-projects",
     "/custom/plane-work-items",
     "/pkg/plane_agent/skills/plane-projects",
     "/pkg/plane_agent/skills/plane-work-items"}

\* The configuration documents mcp_config may name.
ConfigDocs ==
    {[malformed |-> TRUE, servers |-> << >>]}
    \cup [malformed : {FALSE}, servers : SeqsUpTo(ConfigServers, MaxServers)]

NoDoc == [malformed |-> FALSE, servers |-> << >>]

\* The process before create_agent_server is called.
Init ==
    /\ mcp_url \in McpUrls \cup {None}
    /\ mcp_config \in {None, "mcp_config.json"}
    /\ mcp_config_doc \in ConfigDocs
    \* the document is read only on the mcp_config branch
    /\ (mcp_url # None \/ mcp_config = None) => mcp_config_doc = NoDoc
    /\ mcp_url # None => mcp_config = "mcp_config.json"
    /\ custom_skills_directory \in {None, "/custom"}
    /\ fs \in SUBSET FsPaths
    \* a directory exists only inside a directory that exists
    /\ (\E n \in Range(SkillDirNames) : path_join("/custom", n) \in fs)
          => "/custom" \in fs
    /\ server = "start"
    /\ agent_toolsets = << >>
    /\ child_agents = << >>
    /\ supervisor = None
    /\ log = << >>
    /\ swallowed = {}
    /\ a2a_skills = << >>
    /\ NoRun
    /\ request = NoRequest
    /\ concurrent_request = NoRequest

\* create_agent_server (lines 506-640) up to uvicorn.run.
CreateAgentServer ==
    /\ server = "start"
    /\ \E r \in {create_agent(mcp_url, mcp_config, mcp_config_doc,
                             custom_skills_directory, fs)} :
          /\ server' = IF r.raised THEN "raised" ELSE "serving"
          /\ agent_toolsets' = r.agent_toolsets
          /\ child_agents' = r.child_agents
          /\ supervisor' = r.supervisor
          /\ swallowed' = r.swallowed
          /\ \E k \in {server_skills(custom_skills_directory, fs)} :
                IF r.raised
                THEN log' = r.log /\ a2a_skills' = << >>
                ELSE log' = r.log \o k.log /\ a2a_skills' = k.skills
    /\ UNCHANGED <<mcp_url, mcp_config, mcp_config_doc, custom_skills_directory, fs>>
    /\ UNCHANGED <<run_vars, request_vars>>

Next == CreateAgentServer

Spec == Init /\ [][Next]_vars

(***************************************************************************)
(* The delegation tools (lines 343-501) in one run of the supervisor.      *)
(***************************************************************************)
\* Largest usage one supervisor run reaches in the model.
MaxUsage == 2

\* The second of two concurrent calls is made to one of the first
\* ConcurrentTools delegation tools (the first to any of them).
ConcurrentTools == 3

\* The task texts the supervisor hands to a delegation tool.
Tasks == {"create a project called Alpha", "list its work items"}

\* The exceptions a run of a domain agent ends with: an error of the run,
\* or the timeout of the run or of a tool call.
RunExceptions == {"UnexpectedModelBehavior", "TimeoutError"}

\* A delegation tool that, copied from its neighbour, kept the neighbour's
\* key.
delegated_agent_copied(tool, children) ==
    children[IF tool.key = "work_item_links" THEN "work_item_comments" ELSE tool.key]

\* child_agents["<key>"] in the body of a delegation tool (line 347, ...).
delegated_agent(tool, children) == children[tool.key]

\* .run(task) without usage= : the child run makes its own usage object.
run_arguments_own_usage(task, ctx_usage, deps) ==
    [task |-> task, usage |-> None, deps |-> deps]

\* .run(task, usage=ctx.usage, deps=ctx.deps) (lines 347-349, ...): the
\* usage object is passed by reference.
run_arguments(task, ctx_usage, deps) ==
    [task |-> task, usage |-> ctx_usage, deps |-> deps]

\* The output of a run of a domain agent, as a term over the agent that ran
\* and the task it was given.
RunResult(agent, task) == [output |-> <<"output of", agent.name, "for", task>>]

\* return result.output (line 350, ...).
tool_return(result) == result.output

\* A delegation tool is entered: it logs, starts the run of its domain
\* agent and suspends at the await.
CallTool(s, i, task) ==
    LET tool == DELEGATION_TOOLS[i]
        agent == delegated_agent(tool, child_agents)
        args == run_arguments(task, "ctx", ctx_deps)
    IN /\ server = "serving"
       /\ tool.name \in Range(supervisor.tools)
       /\ calls[s].pc = "idle"
       /\ calls' = [calls EXCEPT ![s] =
             [pc |-> "awaiting", tool |-> tool.name, task |-> task,
              logged |-> LogRecord(346, "Assigning to " \o tool.label, task),
              run_agent |-> agent.name, run_task |-> args.task,
              \* a run that is given no usage object makes its own
              run_usage |-> IF args.usage = None THEN s ELSE args.usage,
              run_deps |-> args.deps,
              incurred |-> 0, run_state |-> "running", run_outcome |-> None,
              result |-> None]]
       /\ UNCHANGED <<usage, ctx_deps, usage0>>
       /\ UNCHANGED <<build_vars, request_vars>>

\* The run of the domain agent of call s makes a model request or a tool
\* call: the usage object it was given grows by n, in one step of the
\* event loop.
AgentRunStep(s, n) ==
    /\ calls[s].pc = "awaiting"
    /\ usage0 + calls["call_1"].incurred + calls["call_2"].incurred + n <= MaxUsage
    /\ usage' = [usage EXCEPT ![calls[s].run_usage] = @ + n]
    /\ calls' = [calls EXCEPT ![s].incurred = @ + n]
    /\ UNCHANGED <<ctx_deps, usage0>>
    /\ UNCHANGED <<build_vars, request_vars>>

\* The run of call s ends and the tool returns its output.
AgentRunReturns(s) ==
    /\ calls[s].pc = "awaiting"
    /\ LET result == RunResult([name |-> calls[s].run_agent], calls[s].run_task)
       IN calls' = [calls EXCEPT ![s].pc = "returned",
                                 ![s].run_state = "completed",
                                 ![s].run_outcome = result.output,
                                 ![s].result = tool_return(result)]
    /\ UNCHANGED <<usage, ctx_deps, usage0>>
    /\ UNCHANGED <<build_vars, request_vars>>

\* The run of call s raises: the tool has no try statement, the exception
\* leaves it.
AgentRunRaises(s, exc) ==
    /\ calls[s].pc = "awaiting"
    /\ calls' = [calls EXCEPT ![s].pc = "raised", ![s].run_state = "failed",
                              ![s].run_outcome = exc]
    /\ UNCHANGED <<usage, ctx_deps, usage0>>
    /\ UNCHANGED <<build_vars, request_vars>>

\* The tool calls of the step have all returned: the supervisor goes on to
\* its next step with their results and may call tools again.  (An
\* exception that left a tool has left the run with it.)
SupervisorNextStep ==
    /\ \A s \in Invocations : calls[s].pc \in {"idle", "returned"}
    /\ \E s \in Invocations : calls[s].pc = "returned"
    /\ calls' = [s \in Invocations |-> NoCall]
    /\ usage0' = usage["ctx"]
    /\ usage' = [r \in UsageRefs |-> IF r = "ctx" THEN usage[r] ELSE 0]
    /\ UNCHANGED ctx_deps
    /\ UNCHANGED <<build_vars, request_vars>>

\* A supervisor run about to call its delegation tools: the server was
\* built from an MCP URL.
InitDelegate ==
    /\ mcp_url = "http://plane-mcp:8000/mcp"
    /\ mcp_config = "mcp_config.json"
    /\ mcp_config_doc = NoDoc
    /\ custom_skills_directory = None
    /\ fs = {"/pkg/plane_agent/skills/plane-projects"}
    /\ \E r \in {create_agent(mcp_url, mcp_config, mcp_config_doc,
                             custom_skills_directory, fs)} :
          /\ server = "serving"
          /\ agent_toolsets = r.agent_toolsets
          /\ child_agents = r.child_agents
          /\ supervisor = r.supervisor
          /\ swallowed = r.swallowed
          /\ \E k \in {server_skills(custom_skills_directory, fs)} :
                log = r.log \o k.log /\ a2a_skills = k.skills
    /\ usage0 = 0
    /\ usage = [r \in UsageRefs |-> IF r = "ctx" THEN usage0 ELSE 0]
    /\ ctx_deps \in {None, "caller deps"}
    /\ calls = [s \in Invocations |-> NoCall]
    /\ request = NoRequest
    /\ concurrent_request = NoRequest

NextDelegate ==
    \/ \E i \in 1..Len(DELEGATION_TOOLS) : \E task \in Tasks :
          CallTool("call_1", i, task)
    \/ \E i \in 1..ConcurrentTools : \E task \in Tasks :
          CallTool("call_2", i, task)
    \/ \E s \in Invocations : \E n \in 1..MaxUsage : AgentRunStep(s, n)
    \/ \E s \in Invocations : AgentRunReturns(s)
    \/ \E s \in Invocations : \E exc \in RunExceptions : AgentRunRaises(s, exc)
    \/ SupervisorNextStep

SpecDelegate == InitDelegate /\ [][NextDelegate]_vars


(***************************************************************************)
(* POST /ag-ui (lines 599-621).                                            *)
(***************************************************************************)
\* Longest conversational history of a request body.
MaxMessages == 2

\* Most events one supervisor run produces.
MaxEvents == 2

\* pydantic_ai.ui.SSE_CONTENT_TYPE
SSE_CONTENT_TYPE == "text/event-stream"

\* The size above which prune_large_messages replaces a message.
PRUNE_THRESHOLD == 50000

\* The messages of a history: small, exactly at the threshold, oversized.
Messages ==
    { [role |-> "user", content |-> "list the projects", size |-> 17],
      [role |-> "assistant", content |-> "at the threshold", size |-> 50000],
      [role |-> "tool", content |-> "verbose tool output", size |-> 50001] }

\* The request bodies: two that fail validation (no JSON; JSON of another
\* shape) and the run-input documents with a history.
InvalidBodies == {"{not json", "{\"foo\": 1}"}

RequestBodies ==
    [valid : {FALSE}, text : InvalidBodies, messages : {<< >>}]
    \cup [valid : {TRUE}, text : {"run input"},
          messages : SeqsUpTo(Messages, MaxMessages)]

\* The content types the event encoder of the adapter has a wire format for.
SupportedContentTypes == {"text/event-stream", "application/vnd.ag-ui.event+proto"}

\* The Accept headers: none, the supported types, and types no event
\* stream can be encoded as.
AcceptHeaders == {None} \cup SupportedContentTypes \cup {"text/html", "*/*"}

\* request.headers.get("accept", SSE_CONTENT_TYPE) (line 601).
accept_of(header) == IF header = None THEN SSE_CONTENT_TYPE ELSE header

\* AGUIAdapter.build_run_input(body): the run input, or the ValidationError.
build_run_input(body) ==
    IF body.valid
    THEN [raised |-> FALSE,
          value |-> [thread_id |-> "thread", run_id |-> "run",
                     messages |-> body.messages]]
    ELSE [raised |-> TRUE,
          value |-> [errors |-> IF body.text = "{not json"
                                THEN << [type |-> "json_invalid", loc |-> "body"] >>
                                ELSE << [type |-> "missing", loc |-> "threadId"],
                                        [type |-> "missing", loc |-> "messages"] >>]]

\* e.json(): the errors of a ValidationError as JSON text.
e_json(e) == [json_text_of |-> e.errors]

\* json.dumps(x): x as JSON text.
json_dumps(x) == [json_text_of |-> x]

\* plane_agent.utils.prune_large_messages: a new sequence in which every
\* message above the threshold is a placeholder with the same role.
prune_large_messages(messages) ==
    [i \in 1..Len(messages) |->
       IF messages[i].size > PRUNE_THRESHOLD
       THEN [role |-> messages[i].role, content |-> "[truncated]", size |-> 11]
       ELSE messages[i]]

\* hasattr(run_input, "messages") (line 611).
hasattr_messages(run_input) == "messages" \in DOMAIN run_input

\* An endpoint that hands the parsed input to the adapter as it is.
run_input_unpruned(run_input) == run_input

\* Lines 611-612: run_input with its messages pruned.
run_input_pruned(run_input) ==
    IF hasattr_messages(run_input)
    THEN [run_input EXCEPT !.messages = prune_large_messages(@)]
    ELSE run_input

\* An endpoint that lets the ValidationError escape: the framework answers.
validation_response_uncaught(e) ==
    [class |-> "Response", status_code |-> 500, media_type |-> "text/plain",
     content |-> "Internal Server Error"]

\* Lines 604-609: the response to a body that fails validation.
validation_response(e) ==
    [class |-> "Response", status_code |-> 422, media_type |-> "application/json",
     content |-> json_dumps(e_json(e))]

\* Lines 618-621: the streaming response.
streaming_response(accept) ==
    [class |-> "StreamingResponse", status_code |-> 200, media_type |-> accept,
     content |-> "sse_stream"]

\* ag_ui_endpoint: the steps taken, the response returned and the adapter
\* whose run_stream() feeds it, if any.
ag_ui_endpoint(body, header) ==
    LET accept == accept_of(header)
        parsed == build_run_input(body)
        pruned == run_input_pruned(parsed.value)
    IN IF parsed.raised
       THEN [steps |-> <<"parse">>,
             response |-> validation_response(parsed.value),
             adapter |-> NoAdapter]
       ELSE [steps |-> <<"parse">>
                       \o (IF hasattr_messages(parsed.value) THEN <<"prune">> ELSE << >>)
                       \o <<"run">>,
             response |-> streaming_response(accept),
             adapter |-> [agent |-> supervisor.name, run_input |-> pruned,
                          accept |-> accept]]

\* The events a supervisor run produces.
Events == {"TEXT_MESSAGE_CONTENT", "TOOL_CALL_START"}

\* An event of kind e as the run of request rid produces it.
RunEvent(rid, e) == [run |-> rid, type |-> e]

\* adapter.encode_stream: the frame of an event for the accepted type.
encode(event, accept) == [frame_for |-> accept, data |-> event]

\* A stream that sends the newest frame ahead of the ones before it.
encode_stream_reordered(sent, event, accept) ==
    <<encode(event, accept)>> \o sent

\* Lines 615-616: sse_stream yields the frame of each event of event_stream
\* when the run yields the event.
encode_stream(sent, event, accept) == Append(sent, encode(event, accept))

\* The request record after ag_ui_endpoint has returned (lines 599-621).
Served(body, header) ==
    LET r == ag_ui_endpoint(body, header)
    IN [pc |-> IF r.response.status_code = 200 THEN "streaming" ELSE "responded",
        body |-> body, accept_header |-> header,
        steps |-> r.steps, response |-> r.response, adapter |-> r.adapter,
        produced |-> << >>, sent |-> << >>, closed |-> 0, outcome |-> None]

\* The request record after its run has produced e (lines 615-621).
Streamed(r, rid, e) ==
    [r EXCEPT !.produced = Append(@, RunEvent(rid, e)),
              !.sent = encode_stream(@, RunEvent(rid, e), r.adapter.accept)]

\* The request record after its run has ended (lines 615-621).
Ended(r, outcome) ==
    [r EXCEPT !.pc = "closed", !.closed = @ + 1, !.outcome = outcome]

\* A client posts to /ag-ui and the endpoint returns its response.
PostAgUi(body, header) ==
    /\ server = "serving"
    /\ request.pc = "none"
    /\ \E r \in {Served(body, header)} : request' = r
    /\ UNCHANGED <<build_vars, run_vars, concurrent_request>>

\* The supervisor run of the request produces an event, which the server
\* encodes and sends as it is produced.
StreamEvent(e) ==
    /\ request.pc = "streaming"
    /\ Len(request.produced) < MaxEvents
    /\ request' = Streamed(request, "request", e)
    /\ UNCHANGED <<build_vars, run_vars, concurrent_request>>

\* The supervisor run ends, normally or with an error: the stream closes.
StreamEnd(outcome) ==
    /\ request.pc = "streaming"
    /\ request' = Ended(request, outcome)
    /\ UNCHANGED <<build_vars, run_vars, concurrent_request>>

\* The body of the second request: a history of one small message.
ConcurrentBody ==
    [valid |-> TRUE, text |-> "run input",
     messages |-> << [role |-> "user", content |-> "list the projects", size |-> 17] >>]

\* Another client posts to /ag-ui, whatever the first request is doing.
PostConcurrent ==
    /\ server = "serving"
    /\ concurrent_request.pc = "none"
    /\ \E r \in {Served(ConcurrentBody, None)} : concurrent_request' = r
    /\ UNCHANGED <<build_vars, run_vars, request>>

\* The run of the second request produces an event.
ConcurrentStreamEvent(e) ==
    /\ concurrent_request.pc = "streaming"
    /\ Len(concurrent_request.produced) < MaxEvents
    /\ concurrent_request' = Streamed(concurrent_request, "concurrent_request", e)
    /\ UNCHANGED <<build_vars, run_vars, request>>

\* The run of the second request ends.
ConcurrentStreamEnd(outcome) ==
    /\ concurrent_request.pc = "streaming"
    /\ concurrent_request' = Ended(concurrent_request, outcome)
    /\ UNCHANGED <<build_vars, run_vars, request>>

\* A server built from an MCP URL, serving, with no request yet.
InitAgUi ==
    /\ mcp_url = "http://plane-mcp:8000/sse"
    /\ mcp_config = "mcp_config.json"
    /\ mcp_config_doc = NoDoc
    /\ custom_skills_directory = None
    /\ fs = {}
    /\ \E r \in {create_agent(mcp_url, mcp_config, mcp_config_doc,
                             custom_skills_directory, fs)} :
          /\ server = "serving"
          /\ agent_toolsets = r.agent_toolsets
          /\ child_agents = r.child_agents
          /\ supervisor = r.supervisor
          /\ swallowed = r.swallowed
          /\ \E k \in {server_skills(custom_skills_directory, fs)} :
                log = r.log \o k.log /\ a2a_skills = k.skills
    /\ NoRun
    /\ request = NoRequest
    /\ concurrent_request = NoRequest

NextAgUi ==
    \/ \E body \in RequestBodies : \E header \in AcceptHeaders : PostAgUi(body, header)
    \/ \E e \in Events : StreamEvent(e)
    \/ \E outcome \in {"complete", "error"} : StreamEnd(outcome)
    \/ PostConcurrent
    \/ \E e \in Events : ConcurrentStreamEvent(e)
    \/ \E outcome \in {"complete", "error"} : ConcurrentStreamEnd(outcome)

SpecAgUi == InitAgUi /\ [][NextAgUi]_vars

(***************************************************************************)
(* Properties of delegation.                                               *)
(***************************************************************************)
\* C1: when the run of a domain agent raises or times out inside a
\* delegation tool, the tool returns (an error string, as the result of an
\* unsuccessful task); the exception does not leave the tool.
C1_FailureIsReturned ==
    \A s \in Invocations :
        calls[s].run_state = "failed" =>
            /\ calls[s].pc = "returned"
            /\ calls[s].result # None

\* The name of the delegation tool of domain d.
RegisteredFor(d) == "assign_task_to_" \o d \o "_agent"

\* C2: every key of AGENTS_CONFIG has its delegation tool on the supervisor,
\* and a call of the tool of domain d runs child_agents[d] and no other
\* agent, with the task text the tool received, the caller's usage object
\* and the caller's deps, and returns the output of that run as it is.
C2_ToolRunsItsOwnAgent ==
    server = "serving" =>
        /\ \A d \in DOMAIN AGENTS_CONFIG : RegisteredFor(d) \in Range(supervisor.tools)
        /\ \A s \in Invocations :
              calls[s].pc # "idle" =>
                 /\ \E d \in DOMAIN AGENTS_CONFIG :
                       /\ calls[s].tool = RegisteredFor(d)
                       /\ calls[s].run_agent = child_agents[d].name
                       /\ calls[s].run_agent = AGENTS_CONFIG[d].name
                 /\ calls[s].run_task = calls[s].task
                 /\ calls[s].run_usage = "ctx"
                 /\ calls[s].run_deps = ctx_deps
                 /\ calls[s].pc = "returned" =>
                       /\ calls[s].result = calls[s].run_outcome
                       /\ calls[s].result =
                            <<"output of", calls[s].run_agent, "for", calls[s].task>>

\* Two calls of different tools with different tasks have returned, one of
\* them of the tool registered last, in a run with caller deps.
C2_Witness ==
    /\ ctx_deps = "caller deps"
    /\ calls["call_1"].pc = "returned"
    /\ calls["call_1"].tool = "assign_task_to_work_item_relations_agent"
    /\ calls["call_1"].task = "list its work items"
    /\ calls["call_1"].result =
          <<"output of", "Plane_Work_Item_Relations_Agent", "for", "list its work items">>
    /\ calls["call_2"].pc = "returned"
    /\ calls["call_2"].tool = "assign_task_to_projects_agent"
    /\ calls["call_2"].task = "create a project called Alpha"

\* C3: with two delegation tools in flight on the same RunContext, at every
\* point of every interleaving, and so when both have ended in either
\* order, ctx.usage is the usage before the calls plus the usage each of
\* the two runs incurred.
C3_UsageIsTheSum ==
    usage["ctx"] = usage0 + calls["call_1"].incurred + calls["call_2"].incurred

\* Both calls are in flight, each after its run has incurred usage.
C3_Witness ==
    /\ calls["call_1"].pc = "awaiting" /\ calls["call_1"].incurred > 0
    /\ calls["call_2"].pc = "awaiting" /\ calls["call_2"].incurred > 0
    /\ calls["call_1"].tool # calls["call_2"].tool

(***************************************************************************)
(* Properties of POST /ag-ui.                                              *)
(***************************************************************************)
\* C7: a body that fails run-input validation is answered with status 422
\* and a JSON body that carries the validation errors; the messages are not
\* pruned, no adapter is built and no run started, and no event is produced
\* or sent.
C7_InvalidBodyIs422 ==
    (request.pc # "none" /\ ~request.body.valid) =>
        /\ request.pc = "responded"
        /\ request.response.status_code = 422
        /\ request.response.media_type = "application/json"
        /\ request.response.content
              = json_dumps(e_json(build_run_input(request.body).value))
        /\ request.response.content.json_text_of.json_text_of # << >>
        /\ request.steps = <<"parse">>
        /\ request.adapter.agent = None
        /\ request.produced = << >>
        /\ request.sent = << >>
        /\ request.closed = 0

\* C7: an invalid body was posted and answered.
C7_Witness ==
    /\ request.pc = "responded"
    /\ ~request.body.valid
    /\ request.response.status_code = 422
    /\ Len(request.response.content.json_text_of.json_text_of) = 2

\* C8: on a request whose parsed input has messages the endpoint parses,
\* then prunes, then starts the run; the adapter whose run is streamed holds
\* the pruned messages, so every oversized message of the body reaches the
\* run as its placeholder and never as it was sent.
C8_RunGetsPrunedMessages ==
    (request.pc \in {"streaming", "closed"}
       /\ hasattr_messages(build_run_input(request.body).value)) =>
        /\ request.steps = <<"parse", "prune", "run">>
        /\ request.adapter.agent = supervisor.name
        /\ request.adapter.run_input.messages
              = prune_large_messages(request.body.messages)
        /\ \A i \in 1..Len(request.body.messages) :
              request.body.messages[i].size > PRUNE_THRESHOLD =>
                 /\ request.adapter.run_input.messages[i] # request.body.messages[i]
                 /\ request.adapter.run_input.messages[i].role
                       = request.body.messages[i].role
                 /\ request.adapter.run_input.messages[i].size <= PRUNE_THRESHOLD

\* C8: a run is streaming events for a history that had an oversized message
\* next to one that was kept.
C8_Witness ==
    /\ request.pc = "streaming"
    /\ Len(request.produced) > 0
    /\ \E i, j \in 1..Len(request.body.messages) :
          /\ request.body.messages[i].size > PRUNE_THRESHOLD
          /\ request.adapter.run_input.messages[i].content = "[truncated]"
          /\ request.body.messages[j].size = PRUNE_THRESHOLD
          /\ request.adapter.run_input.messages[j] = request.body.messages[j]

\* The frames of a request's stream are the frames of the events its own
\* run produced, in the order produced, and the stream was closed once if
\* the run has ended and not at all before.
OwnEventsInOrder(r, rid) ==
    r.pc \in {"streaming", "closed"} =>
        /\ Len(r.sent) = Len(r.produced)
        /\ \A i \in 1..Len(r.produced) :
              /\ r.sent[i] = encode(r.produced[i], r.adapter.accept)
              /\ r.sent[i].data.run = rid
        /\ r.closed = IF r.pc = "closed" THEN 1 ELSE 0
        /\ r.pc = "closed" => r.outcome \in {"complete", "error"}

SupportedContentType(r) ==
    r.pc \in {"streaming", "closed"} =>
        /\ r.accept_header = None => r.response.media_type = SSE_CONTENT_TYPE
        /\ r.response.media_type # SSE_CONTENT_TYPE =>
              /\ r.accept_header # None
              /\ r.response.media_type = r.accept_header
              /\ r.accept_header \in SupportedContentTypes
        /\ r.response.media_type \in SupportedContentTypes

\* C13: the content type of the /ag-ui response is the SSE media type when
\* the request has no Accept header, differs from it only when the Accept
\* header names another supported type, and is never an unsupported type
\* taken from the Accept header.
C13_ContentTypeIsSupported ==
    /\ SupportedContentType(request)
    /\ SupportedContentType(concurrent_request)

(***************************************************************************)
(* Properties of the agent-to-agent mount.                                 *)
(***************************************************************************)
\* C12: the skills a serving process advertises on the agent-to-agent mount
\* are never empty: they are the skills of the default root followed by
\* those of the custom root (if one is given and exists), or, if there are
\* none of either, exactly the one generic skill.
C12_SkillsNeverEmpty ==
    server = "serving" =>
        LET found == load_skills_from_directory(get_skills_path, fs)
                     \o (IF custom_skills_directory # None
                            /\ custom_skills_directory \in fs
                         THEN load_skills_from_directory(custom_skills_directory, fs)
                         ELSE << >>)
        IN /\ a2a_skills # << >>
           /\ found # << >> => a2a_skills = found
           /\ found = << >> => a2a_skills = << FallbackSkill >>

\* C12: a process serves with no skill in either root.
C12_Witness ==
    /\ server = "serving"
    /\ custom_skills_directory # None
    /\ custom_skills_directory \in fs
    /\ \A n \in Range(SkillDirNames) :
          /\ path_join(get_skills_path, n) \notin fs
          /\ path_join(custom_skills_directory, n) \notin fs
    /\ a2a_skills = << FallbackSkill >>

(***************************************************************************)
(* Properties of pool construction.                                        *)
(***************************************************************************)
\* The providers of agent_toolsets that the tag filter cannot narrow.
Unfilterable == {ts \in Range(agent_toolsets) : ts.kind # "filterable"}

\* The toolsets of the agent of domain t.
ToolsetsOf(t) == Range(child_agents[t].toolsets)

\* Provider p is attached to the agent of domain t with all of its tools.
AttachedUnfiltered(p, t) ==
    \E ts \in ToolsetsOf(t) : FromProvider(ts, p) /\ VisibleTools(ts) = p.tools

\* C4: a provider that the tag filter cannot narrow does not make pool
\* construction raise, and is attached with its full, unfiltered set of
\* tools to the agent of every domain.
C4_UnfilterableAttachedInFull ==
    (server # "start" /\ Unfilterable # {}) =>
        /\ server = "serving"
        /\ \A p \in Unfilterable : \A t \in Range(AGENT_TAGS) :
              t \in DOMAIN child_agents /\ AttachedUnfiltered(p, t)

\* C5: whenever the except clause of lines 283-286 has been taken for a
\* provider, the log holds a record emitted by that clause.
C5_FallbackIsLogged ==
    swallowed # {} => \E i \in 1..Len(log) : log[i].line \in 283..286

\* C6: create_agent_server serves only if create_agent raised nothing, and
\* then the agent of every domain holds, filtered or not, every provider of
\* agent_toolsets.
C6_AllOrNothing ==
    server = "serving" =>
        \A t \in Range(AGENT_TAGS) : \A p \in Range(agent_toolsets) :
            t \in DOMAIN child_agents
            /\ \E ts \in ToolsetsOf(t) : FromProvider(ts, p)

\* C9: when create_agent has returned, child_agents holds an agent for each
\* key of AGENTS_CONFIG and for nothing else, each agent the one configured
\* for its key, also for a domain without tools and without skills.
C9_OneAgentPerTag ==
    server = "serving" =>
        /\ DOMAIN child_agents = DOMAIN AGENTS_CONFIG
        /\ \A t \in DOMAIN child_agents :
              /\ child_agents[t].name = AGENTS_CONFIG[t].name
              /\ child_agents[t].system_prompt = AGENTS_CONFIG[t].prompt
        /\ \A t, u \in DOMAIN child_agents :
              child_agents[t].name = child_agents[u].name => t = u

\* A pool was built in which a domain has neither a tool nor a skill, next
\* to a domain that has both.
C9_Witness ==
    /\ server = "serving"
    /\ "modules" \in DOMAIN child_agents
    /\ child_agents["modules"].toolsets = << >>
    /\ "projects" \in DOMAIN child_agents
    /\ Len(child_agents["projects"].toolsets) = 1
    /\ child_agents["projects"].toolsets[1].toolset = "SkillsToolset"

\* C10: every tool of a capability provider that the agent of domain d sees
\* belongs to d: d is in the tool's tag set.
C10_ToolsBelongToDomain ==
    server = "serving" =>
        \A d \in DOMAIN child_agents : \A ts \in ToolsetsOf(d) :
            \A td \in VisibleTools(ts) : tool_in_tag(td, d)

\* A pool in which two domains see different, non-empty sets of tools of the
\* same provider, one of them a tool that carries both tags.
C10_Witness ==
    /\ server = "serving"
    /\ \E ts \in ToolsetsOf("cycles") :
          VisibleTools(ts) = {[name |-> "add_work_items_to_cycle",
                               tags |-> {"cycles", "work_items"}]}
    /\ \E ts \in ToolsetsOf("work_items") : Cardinality(VisibleTools(ts)) = 2
    /\ \E ts \in ToolsetsOf("projects") : ts.toolset = "SkillsToolset"

\* The skills toolsets of the agent of domain t, in the order attached.
SkillsToolsetsOf(t) ==
    SelectSeq(child_agents[t].toolsets, LAMBDA ts : ts.toolset = "SkillsToolset")

\* The directory name of a domain: "plane-" and the tag with dashes.
DashedName(t) ==
    "plane-" \o Join(AGENT_TAG_WORDS[CHOOSE i \in 1..Len(AGENT_TAGS) : AGENT_TAGS[i] = t], "-")

\* C14: for each domain the skill directories are looked for under the
\* custom root first and the default root second, both as plane-<tag with
\* dashes>; a directory that does not exist is skipped and construction goes
\* on; the list keeps the custom directory before the default one; the agent
\* has a skills toolset, with that list, if and only if one of the two
\* directories exists.
C14_SkillDirectoriesResolved ==
    /\ DashedName("work_item_relations") = "plane-work-item-relations"
    /\ server = "serving" =>
         \A t \in DOMAIN child_agents :
            LET custom_path == custom_skills_directory \o "/" \o DashedName(t)
                default_path == get_skills_path \o "/" \o DashedName(t)
                has_custom == custom_skills_directory # None /\ custom_path \in fs
                has_default == default_path \in fs
                attached == SkillsToolsetsOf(t)
            IN /\ (has_custom \/ has_default) <=> Len(attached) = 1
               /\ ~(has_custom \/ has_default) <=> attached = << >>
               /\ has_custom /\ has_default =>
                     attached[1].directories = <<custom_path, default_path>>
               /\ has_custom /\ ~has_default =>
                     attached[1].directories = <<custom_path>>
               /\ ~has_custom /\ has_default =>
                     attached[1].directories = <<default_path>>
    \* a missing directory is no error
    /\ server = "raised" => mcp_config_doc.malformed

\* C14: a pool in which one domain has both directories, one only the
\* default one, and the others none.
C14_Witness ==
    /\ server = "serving"
    /\ custom_skills_directory = "/custom"
    /\ SkillsToolsetsOf("work_items")
          = << SkillsToolset(<< "/custom/plane-work-items",
                                "/pkg/plane_agent/skills/plane-work-items" >>) >>
    /\ "/custom/plane-projects" \notin fs
    /\ SkillsToolsetsOf("projects")
          = << SkillsToolset(<< "/pkg/plane_agent/skills/plane-projects" >>) >>
    /\ SkillsToolsetsOf("cycles") = << >>

\* The tools of capability providers the supervisor can call itself.
SupervisorProviderTools ==
    UNION {VisibleTools(ts) : ts \in Range(supervisor.toolsets)}

\* C15: the supervisor is given no capability provider: its only toolset
\* is the supervisor skills toolset and its tools are the delegation
\* handlers, one per domain, so a tool of a capability provider can be
\* called only by a domain agent, which a delegation handler runs.
C15_SupervisorHasNoProvider ==
    server = "serving" =>
        /\ Len(supervisor.toolsets) = 1
        /\ \A ts \in Range(supervisor.toolsets) :
              /\ ts.toolset = "SkillsToolset"
              /\ \A p \in Range(agent_toolsets) : ~FromProvider(ts, p)
        /\ SupervisorProviderTools = {}
        /\ Len(supervisor.tools) = Len(AGENT_TAGS)
        /\ \A i \in 1..Len(supervisor.tools) :
              /\ supervisor.tools[i] = "assign_task_to_" \o AGENT_TAGS[i] \o "_agent"
              /\ DELEGATION_TOOLS[i].key \in DOMAIN child_agents

\* C15: a supervisor was built next to providers whose tools domain agents
\* see.
C15_Witness ==
    /\ server = "serving"
    /\ Len(agent_toolsets) > 1
    /\ \E t \in DOMAIN child_agents : \E ts \in ToolsetsOf(t) : VisibleTools(ts) # {}
    /\ supervisor.toolsets
          = << SkillsToolset(<< "/pkg/plane_agent/skills", "/custom" >>) >>

=============================================================================
